---- MODULE Spec2Model ----
(***************************************************************************)
(* State-machine model of the 2D drawing context of src/src/ctx.rs and the *)
(* backend wrappers of src/src/sk.rs: the rendering-state stack, the       *)
(* global paint, paint resolution, the shadow pass and the draw calls.     *)
(*                                                                         *)
(* Numbers.  JavaScript numbers handed to globalAlpha are modelled as      *)
(* thousandths (500 stands for 0.5) plus the value NaN; every other        *)
(* number is an integer.  8-bit quantities are integers in 0..255.         *)
(* Affine transforms are exact rationals: six integer numerators over a    *)
(* common positive denominator q.                                          *)
(***************************************************************************)
EXTENDS Integers, Sequences, FiniteSets, TLC

VARIABLES
  states,       \* Context.states: the rendering-state stack (ctx.rs:25)
  paint,        \* Context.paint: the global, non-stacked paint (ctx.rs:24)
  path,         \* Context.path: the current path (ctx.rs:23)
  given_path,   \* a Path object of the script, handed to clip() and fill()
  ctm,          \* the backend canvas' active transform
  clip,         \* the backend canvas' active clip
  saved,        \* the backend canvas' save stack (transform and clip per save())
  calls,        \* backend calls issued by the most recent handler, in order
  last,         \* the most recent handler: its name, argument and result
  debug_build,  \* build profile: TRUE when integer overflow checks are on
  snap,         \* history: the top frame as it was at each unmatched save()
  js_props,     \* the JS object's own _fillStyle / _strokeStyle properties
  nset          \* number of setter calls made so far (bounded by MaxSets)

vars == <<states, paint, path, given_path, ctm, clip, saved, calls, last, debug_build, snap, js_props, nset>>

(***************************************************************************)
(* Bounds of the model.                                                    *)
(***************************************************************************)
MaxDepth == 2
MaxSets == 2
MaxCoord == 4
MaxPoints == 2

(***************************************************************************)
(* Integer helpers.                                                        *)
(***************************************************************************)
Abs(x) == IF x < 0 THEN -x ELSE x

RECURSIVE Gcd(_, _)
Gcd(x, y) == IF y = 0 THEN Abs(x) ELSE Gcd(y, x % Abs(y))

Top(s) == s[Len(s)]

(***************************************************************************)
(* Transforms (sk.rs Transform / Matrix).  x' = (a x + c y + e) / q,       *)
(* y' = (b x + d y + f) / q.                                               *)
(***************************************************************************)
Mat(a, b, c, d, e, f, q) == [a |-> a, b |-> b, c |-> c, d |-> d, e |-> e, f |-> f, q |-> q]

Normalize(m) ==
  LET g0 == Gcd(Gcd(Gcd(m.a, m.b), Gcd(m.c, m.d)), Gcd(Gcd(m.e, m.f), m.q))
      g  == IF m.q < 0 THEN -g0 ELSE g0
  IN  Mat(m.a \div g, m.b \div g, m.c \div g, m.d \div g, m.e \div g, m.f \div g, m.q \div g)

Identity == Mat(1, 0, 0, 1, 0, 0, 1)

\* The matrix product m * n: n is applied to a point first, then m.
MatMul(m, n) ==
  Normalize(Mat(m.a * n.a + m.c * n.b,
                m.b * n.a + m.d * n.b,
                m.a * n.c + m.c * n.d,
                m.b * n.c + m.d * n.d,
                m.a * n.e + m.c * n.f + m.e * n.q,
                m.b * n.e + m.d * n.f + m.f * n.q,
                m.q * n.q))

Translation(dx, dy) == Mat(1, 0, 0, 1, dx, dy, 1)

Scaling(sx, sy) == Mat(sx, 0, 0, sy, 0, 0, 1)

PreTranslate(m, dx, dy) == MatMul(m, Translation(dx, dy))

Det(m) == m.a * m.d - m.b * m.c

Invertible(m) == Det(m) # 0

Invert(m) ==
  Normalize(Mat(m.q * m.d, -(m.q * m.b), -(m.q * m.c), m.q * m.a,
                -(m.d * m.e - m.c * m.f), -(m.a * m.f - m.b * m.e),
                Det(m)))

(***************************************************************************)
(* Colours and patterns.  The CSS colour parser and Pattern::from_color    *)
(* are collaborators outside src/; they are modelled on a table of texts.  *)
(***************************************************************************)
Rgba(r, g, b, a) == [red |-> r, green |-> g, blue |-> b, alpha |-> a]

ValidColorStrings == {"red", "rgba(0,0,0,0.5)", "white", "transparent"}

ColorStrings == ValidColorStrings \cup {"currentcolor", "notacolor"}

\* parse(text): an RGBA value, the current-colour keyword, or a parse error.
ParseColor(text) ==
  CASE text = "red"             -> [kind |-> "rgba", rgba |-> Rgba(255, 0, 0, 255)]
    [] text = "rgba(0,0,0,0.5)" -> [kind |-> "rgba", rgba |-> Rgba(0, 0, 0, 128)]
    [] text = "white"           -> [kind |-> "rgba", rgba |-> Rgba(255, 255, 255, 255)]
    [] text = "transparent"     -> [kind |-> "rgba", rgba |-> Rgba(0, 0, 0, 0)]
    [] text = "#000"            -> [kind |-> "rgba", rgba |-> Rgba(0, 0, 0, 255)]
    [] text = "currentcolor"    -> [kind |-> "current", rgba |-> Rgba(0, 0, 0, 0)]
    [] OTHER                    -> [kind |-> "error", rgba |-> Rgba(0, 0, 0, 0)]

ColorPattern(rgba, text) == [kind |-> "Color", rgba |-> rgba, text |-> text, gradient |-> "none"]

GradientPattern(g) == [kind |-> "Gradient", rgba |-> Rgba(0, 0, 0, 0), text |-> "", gradient |-> g]

Gradients == {"linear1"}

\* Pattern::from_color: ok with the pattern, or an error.
FromColor(text) ==
  LET c == ParseColor(text)
  IN  IF c.kind = "rgba"
        THEN [ok |-> TRUE, pattern |-> ColorPattern(c.rgba, text)]
        ELSE [ok |-> FALSE, pattern |-> ColorPattern(c.rgba, text)]

\* Context2dRenderingState::default()
DefaultState ==
  [fill_style          |-> ColorPattern(Rgba(0, 0, 0, 255), "#000"),
   stroke_style        |-> ColorPattern(Rgba(0, 0, 0, 255), "#000"),
   shadow_color        |-> Rgba(0, 0, 0, 0),
   shadow_color_string |-> "transparent",
   shadow_blur         |-> 0,
   shadow_offset_x     |-> 0,
   shadow_offset_y     |-> 0,
   line_dash_list      |-> << >>,
   line_dash_offset    |-> 0]

(***************************************************************************)
(* Paint (sk.rs Paint): the backend paint object as a record.              *)
(***************************************************************************)
NoShader == [gradient |-> "none", transform |-> Identity]

NoPathEffect == [kind |-> "none", intervals |-> << >>, phase |-> 0]

\* A blur mask filter of sigma = twice_sigma / 2.
NoMaskFilter == [kind |-> "none", twice_sigma |-> 0]

\* Paint::new(): the backend's freshly created paint (blend mode 3 is SourceOver).
PaintNew ==
  [style        |-> "Fill",
   color        |-> Rgba(0, 0, 0, 255),
   blend_mode   |-> 3,
   stroke_width |-> 0,
   stroke_cap   |-> "Butt",
   stroke_join  |-> "Miter",
   stroke_miter |-> 4,
   shader       |-> NoShader,
   path_effect  |-> NoPathEffect,
   mask_filter  |-> NoMaskFilter]

SetColor(p, r, g, b, a) == [p EXCEPT !.color = Rgba(r, g, b, a)]

SetAlpha(p, a) == [p EXCEPT !.color.alpha = a]

GetAlpha(p) == p.color.alpha

\* impl Default for Paint
PaintDefault == [SetColor(PaintNew, 0, 0, 0, 0) EXCEPT !.stroke_miter = 10]

\* The paint field of a calls-log entry that is not a draw.
NoPaint == [PaintNew EXCEPT !.style = "none"]

(***************************************************************************)
(* BlendMode (sk.rs): the enum in discriminant order (Clear = 0), its      *)
(* as_str and from_str tables and the conversion from the backend integer. *)
(***************************************************************************)
BlendModeVariants ==
  <<"Clear", "Source", "Destination", "SourceOver", "DestinationOver",
    "SourceIn", "DestinationIn", "SourceOut", "DestinationOut", "SourceATop",
    "DestinationATop", "Xor", "Plus", "Modulate", "Screen", "Overlay",
    "Darken", "Lighten", "ColorDodge", "ColorBurn", "HardLight", "SoftLight",
    "Difference", "Exclusion", "Multiply", "Hue", "Saturation", "Color",
    "Luminosity">>

\* `blend_mode as i32`
BlendToI32(variant) == (CHOOSE i \in 1..Len(BlendModeVariants) : BlendModeVariants[i] = variant) - 1

\* Mutant of BlendFromI32: the arms for 9 and 10 are exchanged.
BlendFromI32Exchanged(value) ==
  IF value = 9 THEN "DestinationATop"
  ELSE IF value = 10 THEN "SourceATop"
  ELSE BlendModeVariants[value + 1]

\* impl From<i32> for BlendMode
BlendFromI32(value) == BlendModeVariants[value + 1]

BlendAsStrTable ==
  {<<"Clear", "clear">>, <<"Color", "color">>, <<"ColorBurn", "color-burn">>,
   <<"ColorDodge", "color-dodge">>, <<"Darken", "darken">>,
   <<"Destination", "destination">>,
   <<"DestinationATop", "destination-atop">>,
   <<"DestinationIn", "destination-in">>,
   <<"DestinationOut", "destination-out">>,
   <<"DestinationOver", "destination-over">>, <<"Difference", "difference">>,
   <<"Exclusion", "exclusion">>, <<"HardLight", "hard-light">>,
   <<"Hue", "hue">>, <<"Lighten", "lighten">>,
   <<"Luminosity", "luminosity">>, <<"Modulate", "modulate">>,
   <<"Multiply", "multiply">>, <<"Overlay", "overlay">>, <<"Plus", "plus">>,
   <<"Saturation", "saturation">>, <<"Screen", "screen">>,
   <<"SoftLight", "soft-light">>, <<"Source", "source">>,
   <<"SourceATop", "source-atop">>, <<"SourceIn", "source-in">>,
   <<"SourceOut", "source-out">>, <<"SourceOver", "source-over">>,
   <<"Xor", "xor">>}

BlendFromStrTable ==
  {<<"clear", "Clear">>, <<"color", "Color">>, <<"color-burn", "ColorBurn">>,
   <<"color-dodge", "ColorDodge">>, <<"darken", "Darken">>,
   <<"destination", "Destination">>,
   <<"destination-atop", "DestinationATop">>,
   <<"destination-in", "DestinationIn">>,
   <<"destination-out", "DestinationOut">>,
   <<"destination-over", "DestinationOver">>, <<"difference", "Difference">>,
   <<"exclusion", "Exclusion">>, <<"hard-light", "HardLight">>,
   <<"hue", "Hue">>, <<"lighten", "Lighten">>,
   <<"luminosity", "Luminosity">>, <<"modulate", "Modulate">>,
   <<"multiply", "Multiply">>, <<"overlay", "Overlay">>, <<"plus", "Plus">>,
   <<"saturation", "Saturation">>, <<"screen", "Screen">>,
   <<"soft-light", "SoftLight">>, <<"source", "Source">>,
   <<"source-atop", "SourceATop">>, <<"source-in", "SourceIn">>,
   <<"source-out", "SourceOut">>, <<"source-over", "SourceOver">>,
   <<"xor", "Xor">>}

\* BlendMode::as_str
BlendAsStr(variant) == (CHOOSE e \in BlendAsStrTable : e[1] = variant)[2]

\* Mutant of BlendStrings: the "plus" arm is missing.
BlendStringsWithoutPlus == {e[1] : e \in BlendFromStrTable} \ {"plus"}

\* The strings matched by an arm of from_str.
BlendStrings == {e[1] : e \in BlendFromStrTable}

\* Mutant of BlendFromStr: an unknown string falls back to a mode instead of
\* failing.
BlendFromStrLenient(value) ==
  IF value \in BlendStrings
    THEN [ok |-> TRUE, mode |-> (CHOOSE e \in BlendFromStrTable : e[1] = value)[2]]
    ELSE [ok |-> TRUE, mode |-> "Clear"]

\* impl FromStr for BlendMode: ok with the variant, or StringToBlendError.
BlendFromStr(value) ==
  IF value \in BlendStrings
    THEN [ok |-> TRUE, mode |-> (CHOOSE e \in BlendFromStrTable : e[1] = value)[2]]
    ELSE [ok |-> FALSE, mode |-> "Clear"]

(***************************************************************************)
(* JavaScript numbers handed to globalAlpha: thousandths, or NaN.          *)
(***************************************************************************)
Num(milli) == [nan |-> FALSE, milli |-> milli]

NaNValue == [nan |-> TRUE, milli |-> 0]

\* `x < 0.0` and `x > 1.0`: every comparison with NaN is false.
LtZero(x) == ~x.nan /\ x.milli < 0

GtOne(x) == ~x.nan /\ x.milli > 1000

\* `(x * 255.0) as u8`: truncates toward zero, saturates, and sends NaN to 0.
TimesU8Max(x) ==
  IF x.nan THEN 0
  ELSE LET t == IF x.milli >= 0 THEN (x.milli * 255) \div 1000
                                ELSE -((-(x.milli * 255)) \div 1000)
       IN  IF t < 0 THEN 0 ELSE IF t > 255 THEN 255 ELSE t

(***************************************************************************)
(* Paint resolution (ctx.rs fill_paint, stroke_paint, shadow_paint).       *)
(***************************************************************************)
\* ((c as f32 / 255.0) * (g as f32 / 255.0)).round() as u8, for bytes c and g:
\* the product lies in [0, 1] and rounds half away from zero, to 0 or to 1.
RoundedAlphaProduct(c, g) == IF 2 * c * g >= 255 * 255 THEN 1 ELSE 0

\* PathEffect::new_dash_path(intervals, phase), given the backend's answer.
DashEffect(intervals, phase) == [kind |-> "dash", intervals |-> intervals, phase |-> phase]

\* The match on the pattern and the dash list of fill_paint, on the clone
\* `base` of the global paint; shader_ok and dash_ok are the backend's answers.
ResolvePaint(base, pattern, state, transform, shader_ok, dash_ok) ==
  LET global_alpha == GetAlpha(paint)
      coloured ==
        IF pattern.kind = "Color"
          THEN [ok |-> TRUE,
                paint |-> SetColor(base, pattern.rgba.red, pattern.rgba.green, pattern.rgba.blue,
                                   RoundedAlphaProduct(pattern.rgba.alpha, global_alpha))]
        ELSE IF pattern.kind = "Gradient"
          THEN IF shader_ok
                 THEN [ok |-> TRUE,
                       paint |-> [SetColor(base, 0, 0, 0, global_alpha) EXCEPT
                                    !.shader = [gradient |-> pattern.gradient,
                                                transform |-> transform]]]
                 ELSE [ok |-> FALSE, paint |-> base]
        ELSE [ok |-> TRUE, paint |-> base]
  IN  IF ~coloured.ok THEN coloured
      ELSE IF Len(state.line_dash_list) # 0
        THEN IF dash_ok
               THEN [ok |-> TRUE,
                     paint |-> [coloured.paint EXCEPT
                                  !.path_effect = DashEffect(state.line_dash_list,
                                                             state.line_dash_offset)]]
               ELSE [ok |-> FALSE, paint |-> coloured.paint]
      ELSE coloured

\* Mutant of FillPaint: the shader is bound to the transform the gradient
\* was created under instead of the canvas's current one.
FillPaintUnbound(shader_ok, dash_ok) ==
  ResolvePaint([paint EXCEPT !.style = "Fill"], Top(states).fill_style, Top(states), Identity,
               shader_ok, dash_ok)

\* Context::fill_paint
FillPaint(shader_ok, dash_ok) ==
  ResolvePaint([paint EXCEPT !.style = "Fill"], Top(states).fill_style, Top(states), ctm,
               shader_ok, dash_ok)

\* Mutant of StrokePaint: a colour keeps its own alpha, the global alpha is
\* not composed into it.
StrokePaintOwnAlpha(shader_ok, dash_ok) ==
  LET resolved == ResolvePaint([paint EXCEPT !.style = "Stroke"], Top(states).stroke_style,
                               Top(states), ctm, shader_ok, dash_ok)
      c == Top(states).stroke_style.rgba
  IN  IF Top(states).stroke_style.kind = "Color"
        THEN [resolved EXCEPT !.paint.color = c]
        ELSE resolved

\* Context::stroke_paint (ctx.rs:269-298): the clone of the global paint with
\* the Stroke style, the match on the stroke style, then the dash list.
StrokePaint(shader_ok, dash_ok) ==
  LET stroked == [paint EXCEPT !.style = "Stroke"]
      last_state == Top(states)
      global_alpha == GetAlpha(paint)
      c == last_state.stroke_style.rgba
      matched ==
        CASE last_state.stroke_style.kind = "Color" ->
               [ok |-> TRUE,
                paint |-> SetColor(stroked, c.red, c.green, c.blue,
                                   RoundedAlphaProduct(c.alpha, global_alpha))]
          [] last_state.stroke_style.kind = "Gradient" ->
               IF shader_ok
                 THEN [ok |-> TRUE,
                       paint |-> [SetColor(stroked, 0, 0, 0, global_alpha) EXCEPT
                                    !.shader = [gradient |-> last_state.stroke_style.gradient,
                                                transform |-> ctm]]]
                 ELSE [ok |-> FALSE, paint |-> stroked]
          [] OTHER -> [ok |-> TRUE, paint |-> stroked]
  IN  IF ~matched.ok THEN matched
      ELSE IF last_state.line_dash_list # << >>
        THEN IF dash_ok
               THEN [ok |-> TRUE,
                     paint |-> [matched.paint EXCEPT
                                  !.path_effect = DashEffect(last_state.line_dash_list,
                                                             last_state.line_dash_offset)]]
               ELSE [ok |-> FALSE, paint |-> matched.paint]
      ELSE matched

\* MaskFilter::make_blur(sigma) with sigma = twice_sigma / 2: the backend
\* makes a blur filter for a positive sigma only.
MakeBlurOk(twice_sigma) == twice_sigma > 0

\* `shadow_alpha * alpha` on u8: wraps modulo 256 in a build without overflow
\* checks; a build with them panics when the product exceeds 255.
MulU8(x, y) == (x * y) % 256

MulU8Overflows(x, y) == x * y > 255

\* Mutant of ShadowSuppressed: the shadow is suppressed only when both
\* offsets are zero.
ShadowSuppressedWhenBothZero(state) ==
  \/ state.shadow_blur = 0
  \/ (state.shadow_offset_x = 0 /\ state.shadow_offset_y = 0)

\* The second test of shadow_paint: which states suppress the shadow.
ShadowSuppressed(state) ==
  \/ state.shadow_blur = 0
  \/ state.shadow_offset_x = 0
  \/ state.shadow_offset_y = 0

\* Context::shadow_paint: "some" with the shadow paint, "none", or "panic".
ShadowPaint(p) ==
  LET alpha == GetAlpha(p)
      state == Top(states)
      shadow_alpha == MulU8(state.shadow_color.alpha, alpha)
  IN  IF debug_build /\ MulU8Overflows(state.shadow_color.alpha, alpha)
        THEN [kind |-> "panic", paint |-> p]
      ELSE IF shadow_alpha = 0 THEN [kind |-> "none", paint |-> p]
      ELSE IF ShadowSuppressed(state) THEN [kind |-> "none", paint |-> p]
      ELSE IF ~MakeBlurOk(state.shadow_blur) THEN [kind |-> "none", paint |-> p]
      ELSE [kind |-> "some",
            paint |-> [SetAlpha(p, shadow_alpha) EXCEPT
                         !.mask_filter = [kind |-> "blur", twice_sigma |-> state.shadow_blur]]]

(***************************************************************************)
(* The backend canvas: the calls log and the transform/clip save stack.    *)
(***************************************************************************)
\* What a backend call draws or clips: a rectangle (its origin and its size),
\* a path, or nothing.
NoGeom == [kind |-> "none", points |-> << >>, verbs |-> << >>, fill_type |-> "none"]

RectGeom(x, y, w, h) ==
  [kind |-> "rect", points |-> <<(<<x, y>>), (<<w, h>>)>>, verbs |-> << >>, fill_type |-> "none"]

PathGeom(p) ==
  [kind |-> "path", points |-> p.points, verbs |-> p.verbs, fill_type |-> p.fill_type]

\* A backend call as logged: its name, what it draws, its paint, the
\* transform and clip of canvas c it leaves or draws under, and its pass.
Call(name, geom, p, c, pass) ==
  [call |-> name, geom |-> geom, paint |-> p, ctm |-> c.ctm, clip |-> c.clip, pass |-> pass]

\* The backend canvas as the handlers find it.
Canvas == [ctm |-> ctm, clip |-> clip, saved |-> saved]

\* Canvas::save and Canvas::restore on the backend's transform/clip stack;
\* the backend ignores a restore with nothing saved.
CanvasSave(c) ==
  [c EXCEPT !.saved = Append(c.saved, [ctm |-> c.ctm, clip |-> c.clip])]

\* Mutant of CanvasRestore: the save stack is popped but the active transform
\* and clip stay as the shadow pass left them.
CanvasRestoreKeepsActive(c) ==
  IF Len(c.saved) = 0 THEN c
  ELSE [c EXCEPT !.saved = SubSeq(c.saved, 1, Len(c.saved) - 1)]

CanvasRestore(c) ==
  IF Len(c.saved) = 0 THEN c
  ELSE [ctm |-> Top(c.saved).ctm, clip |-> Top(c.saved).clip,
        saved |-> SubSeq(c.saved, 1, Len(c.saved) - 1)]

\* Canvas::concat(m): the active transform becomes current x m.
CanvasConcat(c, m) == [c EXCEPT !.ctm = MatMul(c.ctm, m)]

\* The three concats of Context::apply_shadow_offset_matrix on canvas c, whose
\* transform t is read first: the canvas after each of them.
ShadowOffsetSteps(c, dx, dy) ==
  LET t == c.ctm
      c1 == CanvasConcat(c, Invert(t))
      c2 == CanvasConcat(c1, PreTranslate(t, dx, dy))
      c3 == CanvasConcat(c2, t)
  IN  <<c1, c2, c3>>

\* Mutant of InversionFailureCalls: the shadow is drawn before the result of
\* apply_shadow_offset_matrix is looked at.
InversionFailureCallsDrawn(draw, geom, shadow, pushed) ==
  <<Call("save", NoGeom, NoPaint, pushed, "shadow"),
    Call(draw, geom, shadow, pushed, "shadow")>>

\* The calls issued when apply_shadow_offset_matrix fails: `?` returns after
\* surface.save() and before the shadow draw.
InversionFailureCalls(draw, geom, shadow, pushed) ==
  <<Call("save", NoGeom, NoPaint, pushed, "shadow")>>

\* The body shared by stroke_rect, fill_rect, stroke and fill once the paint
\* is resolved: the optional shadow pass, then the primary draw.  Gives the
\* calls issued, the canvas left behind and the handler's result.
DrawPasses(draw, geom, resolved) ==
  LET sp == ShadowPaint(resolved.paint)
      state == Top(states)
      pushed == CanvasSave(Canvas)
      steps == ShadowOffsetSteps(pushed, state.shadow_offset_x, state.shadow_offset_y)
      popped == CanvasRestore(steps[3])
  IN  IF ~resolved.ok
        THEN [result |-> "err", calls |-> << >>, canvas |-> Canvas]
      ELSE IF sp.kind = "panic"
        THEN [result |-> "panic", calls |-> << >>, canvas |-> Canvas]
      ELSE IF sp.kind = "none"
        THEN [result |-> "ok",
              calls |-> <<Call(draw, geom, resolved.paint, Canvas, "primary")>>,
              canvas |-> Canvas]
      ELSE IF ~Invertible(pushed.ctm)
        THEN [result |-> "err",
              calls |-> InversionFailureCalls(draw, geom, sp.paint, pushed),
              canvas |-> pushed]
      ELSE [result |-> "ok",
            calls |-> <<Call("save", NoGeom, NoPaint, pushed, "shadow"),
                        Call("concat", NoGeom, NoPaint, steps[1], "shadow"),
                        Call("concat", NoGeom, NoPaint, steps[2], "shadow"),
                        Call("concat", NoGeom, NoPaint, steps[3], "shadow"),
                        Call(draw, geom, sp.paint, steps[3], "shadow"),
                        Call("restore", NoGeom, NoPaint, popped, "shadow"),
                        Call(draw, geom, resolved.paint, popped, "primary")>>,
            canvas |-> popped]

(***************************************************************************)
(* FillType (sk.rs) and the path.                                          *)
(***************************************************************************)
\* Mutant of FillTypeFromStr: an unknown string is taken as "nonzero".
FillTypeFromStrLenient(value) ==
  CASE value = "evenodd" -> [ok |-> TRUE, fill_type |-> "EvenOdd"]
    [] OTHER             -> [ok |-> TRUE, fill_type |-> "Winding"]

\* impl FromStr for FillType: ok with the fill type, or StringToFillRuleError.
FillTypeFromStr(value) ==
  CASE value = "nonzero" -> [ok |-> TRUE, fill_type |-> "Winding"]
    [] value = "evenodd" -> [ok |-> TRUE, fill_type |-> "EvenOdd"]
    [] OTHER             -> [ok |-> FALSE, fill_type |-> "Winding"]

\* Path::new(): an empty path; the backend's default fill type is Winding.
PathNew == [points |-> << >>, verbs |-> << >>, fill_type |-> "Winding"]

\* The Path object the script holds: an open triangle, fill type Winding.
GivenPath ==
  [points |-> <<(<<0, 0>>), (<<2, 0>>), (<<2, 2>>)>>,
   verbs |-> <<"move", "line", "line">>,
   fill_type |-> "Winding"]

\* Path::move_to and Path::line_to: one more segment on the path.
AddSegment(p, verb, x, y) ==
  [p EXCEPT !.points = Append(@, <<x, y>>), !.verbs = Append(@, verb)]

\* Path::transform_matrix for a translation matrix m: every point is moved.
TransformPath(p, m) ==
  [p EXCEPT !.points = [i \in 1..Len(p.points) |->
                          <<p.points[i][1] + m.e \div m.q, p.points[i][2] + m.f \div m.q>>]]

SetFillType(p, kind) == [p EXCEPT !.fill_type = kind]

(***************************************************************************)
(* JavaScript values handed to fillStyle / strokeStyle.                    *)
(***************************************************************************)
JsString(text) == [type |-> "string", text |-> text, gradient |-> "none"]

JsGradient(g) == [type |-> "object", text |-> "", gradient |-> g]

JsNumber == [type |-> "number", text |-> "", gradient |-> "none"]

JsUndefined == [type |-> "undefined", text |-> "", gradient |-> "none"]

(***************************************************************************)
(* Initial state: Context::new (ctx.rs:103-114) on a fresh surface.        *)
(***************************************************************************)
Init ==
  /\ states = <<DefaultState>>
  /\ paint = PaintDefault
  /\ path = PathNew
  /\ given_path = GivenPath
  /\ ctm = Identity
  /\ clip = NoGeom
  /\ saved = << >>
  /\ calls = << >>
  /\ last = [op |-> "new", result |-> "ok", arg |-> << >>]
  /\ debug_build \in BOOLEAN
  /\ snap = << >>
  /\ js_props = [fillStyle |-> JsUndefined, strokeStyle |-> JsUndefined]
  /\ nset = 0

Done(op, result, arg) == last' = [op |-> op, result |-> result, arg |-> arg]

(***************************************************************************)
(* save / restore (ctx.rs:127-140).                                        *)
(***************************************************************************)
\* Mutant of PushClone: save pushes a default frame instead of a copy.
PushDefault(s) == Append(s, DefaultState)

\* `self.states.push(self.states.last().unwrap().clone())`
PushClone(s) == Append(s, Top(s))

\* Mutant of PopStates: the depth test is dropped and restore always pops.
PopStatesAlways(s) == SubSeq(s, 1, Len(s) - 1)

\* Mutant of PopStates: restore forgets to pop.
PopStatesNever(s) == s

\* `if self.states.len() > 1 { self.states.pop() }`
PopStates(s) == IF Len(s) > 1 THEN SubSeq(s, 1, Len(s) - 1) ELSE s

\* Mutant of RestoreCalls: the backend restore moved inside the depth test.
RestoreCallsGuarded(s, c) ==
  IF Len(s) > 1 THEN <<Call("restore", NoGeom, NoPaint, c, "none")>> ELSE << >>

\* `self.surface.restore()`: restore calls the backend whatever the depth.
RestoreCalls(s, c) == <<Call("restore", NoGeom, NoPaint, c, "none")>>

\* Context::save
Save ==
  /\ Len(states) < MaxDepth
  /\ saved' = CanvasSave(Canvas).saved
  /\ states' = PushClone(states)
  /\ calls' = <<Call("save", NoGeom, NoPaint, CanvasSave(Canvas), "none")>>
  /\ snap' = Append(snap, Top(states))
  /\ Done("save", "ok", << >>)
  /\ UNCHANGED <<paint, path, given_path, ctm, clip, debug_build, js_props>>

\* Context::restore, leaving paint_after as the global paint.  The frame the
\* handler drops is kept as the handler's argument record.
RestoreEffect(paint_after) ==
  LET canvas == CanvasRestore(Canvas)
      log == RestoreCalls(states, canvas)
  IN  /\ ctm' = IF Len(log) = 0 THEN ctm ELSE canvas.ctm
      /\ clip' = IF Len(log) = 0 THEN clip ELSE canvas.clip
      /\ saved' = IF Len(log) = 0 THEN saved ELSE canvas.saved
      /\ states' = PopStates(states)
      /\ calls' = log
      /\ snap' = IF Len(snap) = 0 THEN snap ELSE SubSeq(snap, 1, Len(snap) - 1)
      /\ Done("restore", "ok", IF Len(states') < Len(states) THEN <<Top(states)>> ELSE << >>)
      /\ paint' = paint_after
      /\ UNCHANGED <<path, given_path, debug_build, js_props>>

\* Mutant of Restore: the global paint is reset as if it were stacked.
RestoreResetsPaint == RestoreEffect(PaintDefault)

Restore == RestoreEffect(paint)

(***************************************************************************)
(* Setters of the stacked fields: each writes the top frame only.          *)
(***************************************************************************)
\* `self.states.last_mut().unwrap()` with one field replaced.
SetTop(s, field, value) == [s EXCEPT ![Len(s)] = [@ EXCEPT ![field] = value]]

Setter(op, result, arg) ==
  /\ calls' = << >>
  /\ Done(op, result, arg)
  /\ UNCHANGED <<path, given_path, ctm, clip, saved, debug_build, snap>>

\* Mutant of SetFillStyle: the value is stored for the getter before it is
\* looked at.
SetFillStyleStoresFirst(v) ==
  LET parsed == FromColor(v.text)
      ok == \/ v.type = "string" /\ parsed.ok
            \/ v.type = "object"
  IN  /\ states' = IF ~ok THEN states
                   ELSE IF v.type = "string"
                     THEN SetTop(states, "fill_style", parsed.pattern)
                   ELSE SetTop(states, "fill_style", GradientPattern(v.gradient))
      /\ js_props' = [js_props EXCEPT !.fillStyle = v]
      /\ Setter("set_fill_style", IF ok THEN "ok" ELSE "err", v)
      /\ UNCHANGED paint

\* set_fill_style (ctx.rs:927-952)
SetFillStyle(v) ==
  LET parsed == FromColor(v.text)
      ok == \/ v.type = "string" /\ parsed.ok
            \/ v.type = "object"
  IN  /\ states' = IF ~ok THEN states
                   ELSE IF v.type = "string"
                     THEN SetTop(states, "fill_style", parsed.pattern)
                   ELSE SetTop(states, "fill_style", GradientPattern(v.gradient))
      /\ js_props' = IF ok THEN [js_props EXCEPT !.fillStyle = v] ELSE js_props
      /\ Setter("set_fill_style", IF ok THEN "ok" ELSE "err", v)
      /\ UNCHANGED paint

\* set_stroke_style (ctx.rs:961-992)
SetStrokeStyle(v) ==
  LET parsed == FromColor(v.text)
      ok == \/ v.type = "string" /\ parsed.ok
            \/ v.type = "object"
            \/ v.type = "external"
  IN  /\ states' = IF ~ok \/ v.type = "external" THEN states
                   ELSE IF v.type = "string"
                     THEN SetTop(states, "stroke_style", parsed.pattern)
                   ELSE SetTop(states, "stroke_style", GradientPattern(v.gradient))
      /\ js_props' = IF ok THEN [js_props EXCEPT !.strokeStyle = v] ELSE js_props
      /\ Setter("set_stroke_style", IF ok THEN "ok" ELSE "err", v)
      /\ UNCHANGED paint

\* set_shadow_color (ctx.rs:1038-1067): the text is stored before it is parsed.
SetShadowColor(text) ==
  LET parsed == ParseColor(text)
      stored == SetTop(states, "shadow_color_string", text)
  IN  /\ states' = IF parsed.kind = "rgba"
                     THEN SetTop(stored, "shadow_color", parsed.rgba)
                     ELSE stored
      /\ Setter("set_shadow_color", IF parsed.kind = "rgba" THEN "ok" ELSE "err", text)
      /\ UNCHANGED <<paint, js_props>>

\* set_shadow_blur (ctx.rs:1009-1020)
SetShadowBlur(blur) ==
  /\ states' = SetTop(states, "shadow_blur", blur)
  /\ Setter("set_shadow_blur", "ok", blur)
  /\ UNCHANGED <<paint, js_props>>

\* set_shadow_offset_x (ctx.rs:1078-1089)
SetShadowOffsetX(offset) ==
  /\ states' = SetTop(states, "shadow_offset_x", offset)
  /\ Setter("set_shadow_offset_x", "ok", offset)
  /\ UNCHANGED <<paint, js_props>>

\* set_shadow_offset_y (ctx.rs:1100-1111)
SetShadowOffsetY(offset) ==
  /\ states' = SetTop(states, "shadow_offset_y", offset)
  /\ Setter("set_shadow_offset_y", "ok", offset)
  /\ UNCHANGED <<paint, js_props>>

\* set_line_dash_offset (ctx.rs:866-877)
SetLineDashOffset(offset) ==
  /\ states' = SetTop(states, "line_dash_offset", offset)
  /\ Setter("set_line_dash_offset", "ok", offset)
  /\ UNCHANGED <<paint, js_props>>

(***************************************************************************)
(* Setters and getters of the global paint.                                *)
(***************************************************************************)
\* The range test of set_global_alpha: which arguments are rejected.
AlphaRejected(alpha) == LtZero(alpha) \/ GtOne(alpha)

\* set_global_alpha (ctx.rs:668-686)
SetGlobalAlpha(alpha) ==
  /\ paint' = IF AlphaRejected(alpha) THEN paint ELSE SetAlpha(paint, TimesU8Max(alpha))
  /\ Setter("set_global_alpha", IF AlphaRejected(alpha) THEN "err" ELSE "ok", alpha)
  /\ UNCHANGED <<states, js_props>>

\* get_global_alpha (ctx.rs:688-696): alpha / 255, as the pair <<numerator,
\* denominator>>.
GetGlobalAlpha == <<GetAlpha(paint), 255>>

\* set_global_composite_operation (ctx.rs:698-709)
SetGlobalCompositeOperation(text) ==
  LET parsed == BlendFromStr(text)
  IN  /\ paint' = IF parsed.ok THEN [paint EXCEPT !.blend_mode = BlendToI32(parsed.mode)]
                               ELSE paint
      /\ Setter("set_global_composite_operation", IF parsed.ok THEN "ok" ELSE "err", text)
      /\ UNCHANGED <<states, js_props>>

\* get_global_composite_operation (ctx.rs:711-719)
GetGlobalCompositeOperation == BlendAsStr(BlendFromI32(paint.blend_mode))

\* set_miter_limit (ctx.rs:619-626)
SetMiterLimit(miter) ==
  /\ paint' = [paint EXCEPT !.stroke_miter = miter]
  /\ Setter("set_miter_limit", "ok", miter)
  /\ UNCHANGED <<states, js_props>>

\* set_line_width (ctx.rs:914-924)
SetLineWidth(width) ==
  /\ paint' = [paint EXCEPT !.stroke_width = width]
  /\ Setter("set_line_width", "ok", width)
  /\ UNCHANGED <<states, js_props>>

\* StrokeCap::from_str and StrokeJoin::from_str: the canvas keywords.
StrokeCapFromStr(value) ==
  CASE value = "butt"   -> [ok |-> TRUE, cap |-> "Butt"]
    [] value = "round"  -> [ok |-> TRUE, cap |-> "Round"]
    [] value = "square" -> [ok |-> TRUE, cap |-> "Square"]
    [] OTHER            -> [ok |-> FALSE, cap |-> "Butt"]

StrokeJoinFromStr(value) ==
  CASE value = "miter" -> [ok |-> TRUE, join |-> "Miter"]
    [] value = "round" -> [ok |-> TRUE, join |-> "Round"]
    [] value = "bevel" -> [ok |-> TRUE, join |-> "Bevel"]
    [] OTHER           -> [ok |-> FALSE, join |-> "Miter"]

\* set_line_cap (ctx.rs:841-854)
SetLineCap(text) ==
  LET parsed == StrokeCapFromStr(text)
  IN  /\ paint' = IF parsed.ok THEN [paint EXCEPT !.stroke_cap = parsed.cap] ELSE paint
      /\ Setter("set_line_cap", IF parsed.ok THEN "ok" ELSE "err", text)
      /\ UNCHANGED <<states, js_props>>

\* set_line_join (ctx.rs:889-902)
SetLineJoin(text) ==
  LET parsed == StrokeJoinFromStr(text)
  IN  /\ paint' = IF parsed.ok THEN [paint EXCEPT !.stroke_join = parsed.join] ELSE paint
      /\ Setter("set_line_join", IF parsed.ok THEN "ok" ELSE "err", text)
      /\ UNCHANGED <<states, js_props>>

\* scale (ctx.rs:784-795): forwarded to the canvas transform.
Scale(sx, sy) ==
  /\ ctm' = MatMul(ctm, Scaling(sx, sy))
  /\ calls' = <<Call("scale", NoGeom, NoPaint, [Canvas EXCEPT !.ctm = ctm'], "none")>>
  /\ Done("scale", "ok", <<sx, sy>>)
  /\ UNCHANGED <<states, paint, path, given_path, clip, saved, debug_build, snap, js_props>>

\* Mutant of Translate: only the canvas is translated.
TranslateCanvasOnly(x, y) ==
  /\ ctm' = MatMul(ctm, Translation(x, y))
  /\ calls' = <<Call("translate", NoGeom, NoPaint, [Canvas EXCEPT !.ctm = ctm'], "none")>>
  /\ Done("translate", "ok", <<x, y>>)
  /\ UNCHANGED <<states, paint, path, given_path, clip, saved, debug_build, snap, js_props>>

\* translate (ctx.rs:815-829): the current path is moved by the inverse
\* translation, then the canvas is translated.
Translate(x, y) ==
  /\ path' = TransformPath(path, PreTranslate(Identity, -x, -y))
  /\ ctm' = MatMul(ctm, Translation(x, y))
  /\ calls' = <<Call("translate", NoGeom, NoPaint, [Canvas EXCEPT !.ctm = ctm'], "none")>>
  /\ Done("translate", "ok", <<x, y>>)
  /\ UNCHANGED <<states, paint, given_path, clip, saved, debug_build, snap, js_props>>

\* get_fill_style (ctx.rs:954-958) and get_stroke_style (ctx.rs:994-998)
GetFillStyle == js_props.fillStyle

GetStrokeStyle == js_props.strokeStyle

(***************************************************************************)
(* The current path.                                                       *)
(***************************************************************************)
PathOp(op, arg, p) ==
  /\ path' = p
  /\ calls' = << >>
  /\ Done(op, "ok", arg)
  /\ UNCHANGED <<states, paint, given_path, ctm, clip, saved, debug_build, snap, js_props>>

\* move_to (ctx.rs:606-617)
MoveTo(x, y) ==
  /\ Len(path.points) < MaxPoints
  /\ PathOp("move_to", <<x, y>>, AddSegment(path, "move", x, y))

\* line_to (ctx.rs:593-604)
LineTo(x, y) ==
  /\ Len(path.points) < MaxPoints
  /\ PathOp("line_to", <<x, y>>, AddSegment(path, "line", x, y))

\* Mutant of BeginPath: the current path keeps its segments.
BeginPathKeepsSegments == PathOp("begin_path", << >>, path)

\* begin_path (ctx.rs:397-406): the current path is replaced by Path::new().
BeginPath == PathOp("begin_path", << >>, PathNew)

\* The fill type a clip or fill handler hands on: Winding when the call has
\* no fill-rule argument (rule = << >>), else the parsed rule (rule = <<text>>).
RuleArgument(rule) ==
  IF Len(rule) = 0 THEN [ok |-> TRUE, fill_type |-> "Winding"]
  ELSE FillTypeFromStr(rule[1])

\* Mutant of ClipTarget: the clip is always taken from the current path.
ClipTargetCurrent(given) == path

\* Context::clip: `match path { Some(path) => path, None => &mut self.path }`
ClipTarget(given) == IF given THEN given_path ELSE path

\* clip (ctx.rs:449-469) calling Context::clip (ctx.rs:117-124): clip(),
\* clip(rule) and clip(path, rule).  The fill type is set on the target and
\* the target is handed to Canvas::set_clip_path; the model keeps the path
\* last handed over as the active clip.
Clip(given, rule) ==
  LET parsed == RuleArgument(rule)
      target == SetFillType(ClipTarget(given), parsed.fill_type)
      arg == [given |-> given, rule |-> rule]
  IN  IF ~parsed.ok
        THEN /\ calls' = << >>
             /\ Done("clip", "err", arg)
             /\ UNCHANGED <<states, paint, path, given_path, ctm, clip, saved,
                            debug_build, snap, js_props>>
        ELSE /\ path' = IF given THEN path ELSE target
             /\ given_path' = IF given THEN target ELSE given_path
             /\ clip' = PathGeom(target)
             /\ calls' = <<Call("clip_path", PathGeom(target), NoPaint,
                                [Canvas EXCEPT !.clip = PathGeom(target)], "none")>>
             /\ Done("clip", "ok", arg)
             /\ UNCHANGED <<states, paint, ctm, saved, debug_build, snap, js_props>>

(***************************************************************************)
(* Draw calls.  shader_ok and dash_ok are the backend's answers to the     *)
(* shader and dash-effect constructions, should the handler ask for them.  *)
(***************************************************************************)
DrawEffect(op, arg, passes) ==
  /\ calls' = passes.calls
  /\ ctm' = passes.canvas.ctm
  /\ clip' = passes.canvas.clip
  /\ saved' = passes.canvas.saved
  /\ Done(op, passes.result, arg)
  /\ UNCHANGED <<states, paint, debug_build, snap, js_props>>

\* fill_rect (ctx.rs:653-666) calling Context::fill_rect (ctx.rs:164-182)
FillRect(x, y, w, h, shader_ok, dash_ok) ==
  /\ DrawEffect("fill_rect", <<x, y, w, h>>,
                DrawPasses("draw_rect", RectGeom(x, y, w, h), FillPaint(shader_ok, dash_ok)))
  /\ UNCHANGED <<path, given_path>>

\* stroke_rect (ctx.rs:638-651) calling Context::stroke_rect (ctx.rs:143-161)
StrokeRect(x, y, w, h, shader_ok, dash_ok) ==
  /\ DrawEffect("stroke_rect", <<x, y, w, h>>,
                DrawPasses("draw_rect", RectGeom(x, y, w, h), StrokePaint(shader_ok, dash_ok)))
  /\ UNCHANGED <<path, given_path>>

\* stroke (ctx.rs:797-813) with no path argument, calling Context::stroke
\* (ctx.rs:185-203) on the current path.
Stroke(shader_ok, dash_ok) ==
  /\ DrawEffect("stroke", << >>,
                DrawPasses("draw_path", PathGeom(path), StrokePaint(shader_ok, dash_ok)))
  /\ UNCHANGED <<path, given_path>>

\* fill (ctx.rs:487-521) with no argument (rule = << >>) or with a fill-rule
\* string (rule = <<text>>), calling Context::fill (ctx.rs:206-234) on the
\* current path: the fill type is set before the paint is resolved.
Fill(rule, shader_ok, dash_ok) ==
  LET parsed == IF Len(rule) = 0 THEN [ok |-> TRUE, fill_type |-> "Winding"]
                ELSE FillTypeFromStr(rule[1])
      target == SetFillType(path, parsed.fill_type)
  IN  IF ~parsed.ok
        THEN /\ calls' = << >>
             /\ Done("fill", "err", rule)
             /\ UNCHANGED <<states, paint, path, given_path, ctm, clip, saved, debug_build, snap, js_props>>
        ELSE /\ path' = target
             /\ UNCHANGED given_path
             /\ DrawEffect("fill", rule,
                           DrawPasses("draw_path", PathGeom(target),
                                      FillPaint(shader_ok, dash_ok)))

\* fill (ctx.rs:487-521) with a Path object, alone (rule = << >>) or followed
\* by a fill-rule string (rule = <<text>>), calling Context::fill on it.
FillGiven(rule, shader_ok, dash_ok) ==
  LET parsed == RuleArgument(rule)
      target == SetFillType(given_path, parsed.fill_type)
  IN  IF ~parsed.ok
        THEN /\ calls' = << >>
             /\ Done("fill_path", "err", rule)
             /\ UNCHANGED <<states, paint, path, given_path, ctm, clip, saved,
                            debug_build, snap, js_props>>
        ELSE /\ given_path' = target
             /\ UNCHANGED path
             /\ DrawEffect("fill_path", rule,
                           DrawPasses("draw_path", PathGeom(target),
                                      FillPaint(shader_ok, dash_ok)))

\* Mutant of ClearPaint: the rectangle is drawn with the global paint.
ClearPaintFromGlobal == [paint EXCEPT !.style = "Fill"]

\* The paint clear_rect builds (ctx.rs:548-552): a new paint, transparent,
\* with the SourceOver blend mode.
ClearPaint ==
  [SetColor([PaintNew EXCEPT !.style = "Fill"], 0, 0, 0, 0)
     EXCEPT !.stroke_miter = 10, !.blend_mode = BlendToI32("SourceOver")]

\* clear_rect (ctx.rs:539-557)
ClearRect(x, y, w, h) ==
  /\ calls' = <<Call("draw_rect", RectGeom(x, y, w, h), ClearPaint, Canvas, "primary")>>
  /\ Done("clear_rect", "ok", <<x, y, w, h>>)
  /\ UNCHANGED <<states, paint, path, given_path, ctm, clip, saved, debug_build, snap, js_props>>

(***************************************************************************)
(* ImageData (image.rs).  Sizes are kept as little-endian sequences of    *)
(* bytes wide enough for a product of three 32-bit values; a u32 is the    *)
(* low four bytes.                                                         *)
(***************************************************************************)
ByteIndex == 1..10

\* The bytes of a number below 2^31.
ToBytes(n) == [i \in ByteIndex |-> IF i <= 4 THEN (n \div (256 ^ (i - 1))) % 256 ELSE 0]

\* Column k of the schoolbook product of x and y, and what it carries on.
RECURSIVE ColumnSum(_, _, _, _)
ColumnSum(x, y, k, i) ==
  IF i = 0 THEN 0 ELSE x[i] * y[k + 1 - i] + ColumnSum(x, y, k, i - 1)

RECURSIVE ColumnTotal(_, _, _)
ColumnTotal(x, y, k) ==
  IF k = 0 THEN 0 ELSE ColumnSum(x, y, k, k) + ColumnTotal(x, y, k - 1) \div 256

\* The product of x and y in full.
Times(x, y) == [k \in ByteIndex |-> ColumnTotal(x, y, k) % 256]

FitsU32(x) == \A i \in ByteIndex : i > 4 => x[i] = 0

\* `x as u32`
AsU32(x) == [i \in ByteIndex |-> IF i <= 4 THEN x[i] ELSE 0]

\* x * y on u32 operands: a panic on overflow in a debug build, the product
\* modulo 2^32 otherwise.
MulU32(x, y) ==
  [panic |-> debug_build /\ ~FitsU32(Times(x, y)), value |-> AsU32(Times(x, y))]

\* width * height * 4 as image.rs computes it: left to right in u32.
SizeU32(first, second) ==
  LET inner == MulU32(first, second)
      outer == MulU32(inner.value, ToBytes(4))
  IN  [panic |-> inner.panic \/ outer.panic, value |-> outer.value]

\* An ImageData and the buffer the constructor made for it.
ImageData(width, height, data_len) == [width |-> width, height |-> height, data_len |-> data_len]

NoImageData == ImageData(0, 0, ToBytes(0))

\* image_data_constructor (image.rs:28-121) called as (width, height).
ConstructFromSize(width, height) ==
  LET arraybuffer_length == SizeU32(ToBytes(width), ToBytes(height))
  IN  IF arraybuffer_length.panic
        THEN [result |-> "panic", image |-> NoImageData]
        ELSE [result |-> "ok", image |-> ImageData(width, height, arraybuffer_length.value)]

\* image_data_constructor called as (data, width) or (data, width, height)
\* with a Uint8ClampedArray of data_len bytes; height is << >> when absent.
ConstructFromData(data_len, width, height) ==
  LET checked == SizeU32(ToBytes(height[1]), ToBytes(width))
  IN  IF Len(height) = 1
        THEN IF checked.panic
               THEN [result |-> "panic", image |-> NoImageData]
             ELSE IF checked.value # AsU32(ToBytes(data_len))
               THEN [result |-> "err", image |-> NoImageData]
             ELSE [result |-> "ok", image |-> ImageData(width, height[1], ToBytes(data_len))]
      ELSE IF width = 0
        THEN [result |-> "panic", image |-> NoImageData]
      ELSE [result |-> "ok",
            image |-> ImageData(width, (data_len \div width) \div 4, ToBytes(data_len))]

\* impl Drop for ImageData (image.rs:15-20): the length the buffer is
\* released with.
DropLen(image) == SizeU32(ToBytes(image.width), ToBytes(image.height))

\* The constructor as a handler: form is "size" for a first argument that is
\* a number, "data" for a Uint8ClampedArray, "other" for anything else.
ImageDataConstructor(form, data_len, width, height) ==
  LET made == IF form = "size" THEN ConstructFromSize(width, height[1])
              ELSE IF form = "data" THEN ConstructFromData(data_len, width, height)
              ELSE [result |-> "err", image |-> NoImageData]
  IN  /\ form = "size" => (Len(height) = 1 /\ data_len = 0)
      /\ calls' = << >>
      /\ Done("image_data", made.result,
              [form |-> form, args |-> <<data_len, width>> \o height, image |-> made.image])
      /\ UNCHANGED <<states, paint, path, given_path, ctm, clip, saved, debug_build, snap, js_props>>

(***************************************************************************)
(* Specifications.  A handler either counts against the budget of setter   *)
(* calls (Counted) or leaves the counter alone (Free).                     *)
(***************************************************************************)
Counted(A) == nset < MaxSets /\ A /\ nset' = nset + 1

Free(A) == A /\ UNCHANGED nset

Booleans == {TRUE, FALSE}

AlphaInputs == {Num(-100), Num(0), Num(8), Num(500), Num(1000), Num(1100), NaNValue}

\* The style stack under every setter: save, restore, the setters of the
\* stacked fields and of the global paint, and the draw calls.
Next ==
  \/ Free(Save)
  \/ Free(Restore)
  \/ \E v \in {JsString("red"), JsGradient("linear1")} : Counted(SetFillStyle(v))
  \/ \E v \in {JsString("red"), JsString("notacolor")} : Counted(SetStrokeStyle(v))
  \/ \E t \in {"white"} : Counted(SetShadowColor(t))
  \/ \E b \in {5} : Counted(SetShadowBlur(b))
  \/ \E o \in {3} : Counted(SetShadowOffsetX(o))
  \/ \E o \in {3} : Counted(SetShadowOffsetY(o))
  \/ \E o \in {1} : Counted(SetLineDashOffset(o))
  \/ \E a \in {Num(500)} : Counted(SetGlobalAlpha(a))
  \/ \E t \in {"xor"} : Counted(SetGlobalCompositeOperation(t))
  \/ \E m \in {2} : Counted(SetMiterLimit(m))
  \/ \E w \in {2} : Counted(SetLineWidth(w))
  \/ \E t \in {"round"} : Counted(SetLineCap(t))
  \/ \E t \in {"bevel"} : Counted(SetLineJoin(t))
  \/ \E ok \in Booleans : Free(FillRect(0, 0, 1, 1, ok, TRUE))
  \/ \E ok \in Booleans : Free(StrokeRect(0, 0, 1, 1, ok, TRUE))
  \/ \E ok \in Booleans : Free(Stroke(ok, TRUE))
  \/ \E r \in {<< >>, <<"evenodd">>}, ok \in Booleans : Free(Fill(r, ok, TRUE))

Spec == Init /\ [][Next]_vars

\* The global alpha and the colour it is composed with: the globalAlpha and
\* fillStyle setters and the draw calls that resolve a fill paint.
NextAlpha ==
  \/ \E a \in AlphaInputs : Free(SetGlobalAlpha(a))
  \/ \E t \in {"red", "rgba(0,0,0,0.5)", "transparent"} : Free(SetFillStyle(JsString(t)))
  \/ Free(FillRect(0, 0, 1, 1, TRUE, TRUE))
  \/ Free(Fill(<< >>, TRUE, TRUE))

SpecAlpha == Init /\ [][NextAlpha]_vars

\* The shadow pass: the shadow setters, the fill and stroke styles, the
\* global alpha, the canvas scale and the four draw calls.  A draw call that
\* fails on a singular transform leaves a backend save behind; the draw
\* calls are cut off once MaxDepth of them are outstanding.
NextShadow ==
  \/ \E t \in {"rgba(0,0,0,0.5)", "white"} : Free(SetShadowColor(t))
  \/ \E b \in {0, 5} : Free(SetShadowBlur(b))
  \/ \E o \in {0, 3} : Free(SetShadowOffsetX(o))
  \/ \E o \in {0, 3} : Free(SetShadowOffsetY(o))
  \/ \E v \in {JsString("red"), JsGradient("linear1")} : Free(SetFillStyle(v))
  \/ \E v \in {JsGradient("linear1")} : Free(SetStrokeStyle(v))
  \/ \E a \in {Num(8), Num(1000)} : Free(SetGlobalAlpha(a))
  \/ \E sc \in {<<2, 2>>, <<0, 1>>} :
       /\ Abs(ctm.a * sc[1]) <= MaxCoord /\ Abs(ctm.d * sc[2]) <= MaxCoord
       /\ Free(Scale(sc[1], sc[2]))
  \/ \E ok \in Booleans : Len(saved) < MaxDepth /\ Free(FillRect(0, 0, 1, 1, ok, TRUE))
  \/ \E ok \in Booleans : Len(saved) < MaxDepth /\ Free(StrokeRect(0, 0, 1, 1, ok, TRUE))
  \/ \E ok \in Booleans : Len(saved) < MaxDepth /\ Free(Stroke(ok, TRUE))
  \/ \E ok \in Booleans : Len(saved) < MaxDepth /\ Free(Fill(<< >>, ok, TRUE))

SpecShadow == Init /\ [][NextShadow]_vars

\* The composition of the shadow alpha on its own: a context whose top frame
\* carries any 8-bit shadow-colour alpha with a blur and both offsets set,
\* and a paint with any 8-bit alpha, handed once to Context::shadow_paint.
Bytes == 0..255

InitShadowAlpha ==
  /\ \E a \in Bytes :
       states = <<[DefaultState EXCEPT !.shadow_color = Rgba(0, 0, 0, a),
                                       !.shadow_blur = 5,
                                       !.shadow_offset_x = 3,
                                       !.shadow_offset_y = 3]>>
  /\ \E b \in Bytes : paint = SetAlpha(PaintDefault, b)
  /\ path = PathNew
  /\ given_path = GivenPath
  /\ ctm = Identity
  /\ clip = NoGeom
  /\ saved = << >>
  /\ calls = << >>
  /\ last = [op |-> "new", result |-> "ok", arg |-> << >>]
  /\ debug_build \in BOOLEAN
  /\ snap = << >>
  /\ js_props = [fillStyle |-> JsUndefined, strokeStyle |-> JsUndefined]
  /\ nset = 0

\* One call of Context::shadow_paint on the paint: its outcome and the alpha
\* of the paint it gives back.
ComposeShadowAlpha ==
  /\ last.op = "new"
  /\ LET sp == ShadowPaint(paint)
     IN  Done("shadow_paint", sp.kind, <<GetAlpha(sp.paint)>>)
  /\ UNCHANGED <<states, paint, path, given_path, ctm, clip, saved, calls, debug_build, snap, js_props, nset>>

NextShadowAlpha == ComposeShadowAlpha

SpecShadowAlpha == InitShadowAlpha /\ [][NextShadowAlpha]_vars

\* The canvas transform under the shadow pass: translate and scale (counted
\* against the budget of calls), the shadow setters and a global alpha that
\* let a shadow be drawn, a path segment, a clip and two draw calls.
NextTransform ==
  \/ \E t \in {<<1, 2>>} : Counted(Translate(t[1], t[2]))
  \/ \E sc \in {<<2, 2>>} : Counted(Scale(sc[1], sc[2]))
  \/ Free(SetShadowColor("white"))
  \/ Free(SetShadowBlur(5))
  \/ Free(SetShadowOffsetX(3))
  \/ \E o \in {-2, 3} : Free(SetShadowOffsetY(o))
  \/ Free(SetGlobalAlpha(Num(1000)))
  \/ \E xy \in {<<1, 1>>} : Free(MoveTo(xy[1], xy[2]))
  \/ Free(Clip(TRUE, <<"evenodd">>))
  \/ Free(FillRect(0, 0, 1, 1, TRUE, TRUE))
  \/ Free(Stroke(TRUE, TRUE))

SpecTransform == Init /\ [][NextTransform]_vars

\* The blend mode: globalCompositeOperation set to every string of the
\* lookup table and to strings outside it, with the stack underneath.
UnknownBlendStrings == {"", "XOR", "lighter", "source-over "}

NextBlend ==
  \/ \E t \in BlendStrings \cup UnknownBlendStrings : Free(SetGlobalCompositeOperation(t))
  \/ Free(SetShadowBlur(5))
  \/ Free(SetGlobalAlpha(Num(500)))
  \/ Free(Save)
  \/ Free(Restore)

SpecBlend == Init /\ [][NextBlend]_vars

\* Paths and clips: the segments of the current path (counted against the
\* budget of calls), beginPath, the three forms of clip, fill on the current
\* path and on the given one.
FillRules == {<< >>, <<"nonzero">>, <<"evenodd">>, <<"bogus">>}

NextPath ==
  \/ Counted(MoveTo(1, 1))
  \/ Counted(LineTo(3, 1))
  \/ Free(BeginPath)
  \/ \E r \in FillRules : Free(Clip(FALSE, r))
  \/ \E r \in {<<"evenodd">>, <<"bogus">>} : Free(Clip(TRUE, r))
  \/ \E r \in {<< >>, <<"evenodd">>, <<"bogus">>} : Free(Fill(r, TRUE, TRUE))
  \/ \E r \in {<<"nonzero">>, <<"bogus">>} : Free(FillGiven(r, TRUE, TRUE))

SpecPath == Init /\ [][NextPath]_vars

\* clearRect against everything it must not read or change: the blend mode,
\* the global alpha, the stroke width, the shadow fields, the current path
\* (counted against the budget of calls) and a fillRect to compare with.
NextClear ==
  \/ \E t \in {"xor", "copy"} : Free(SetGlobalCompositeOperation(t))
  \/ Free(SetGlobalAlpha(Num(500)))
  \/ Free(SetLineWidth(2))
  \/ Free(SetFillStyle(JsString("red")))
  \/ Free(SetShadowColor("white"))
  \/ Free(SetShadowBlur(5))
  \/ Free(SetShadowOffsetX(3))
  \/ Free(SetShadowOffsetY(3))
  \/ Counted(MoveTo(1, 1))
  \/ Free(ClearRect(0, 0, 1, 1))
  \/ Free(FillRect(0, 0, 1, 1, TRUE, TRUE))

SpecClear == Init /\ [][NextClear]_vars

\* Gradients under a moving transform: the fill and stroke styles, the
\* global alpha, translate and scale (counted against the budget of calls)
\* and the four draw calls with either answer of the shader construction.
NextGradient ==
  \/ \E v \in {JsString("red"), JsGradient("linear1")} : Free(SetFillStyle(v))
  \/ Free(SetStrokeStyle(JsGradient("linear1")))
  \/ Free(SetGlobalAlpha(Num(500)))
  \/ Counted(Translate(1, 2))
  \/ Counted(Scale(2, 2))
  \/ \E ok \in Booleans : Free(FillRect(0, 0, 1, 1, ok, TRUE))
  \/ \E ok \in Booleans : Free(StrokeRect(0, 0, 1, 1, ok, TRUE))
  \/ \E ok \in Booleans : Free(Stroke(ok, TRUE))
  \/ \E ok \in Booleans : Free(Fill(<< >>, ok, TRUE))

SpecGradient == Init /\ [][NextGradient]_vars

\* The fill and stroke styles on the stack: both setters with colours, a
\* gradient, texts that do not parse, the current-colour keyword and a
\* number, with save and restore.
NextStyle ==
  \/ \E v \in {JsString("red"), JsGradient("linear1"), JsString("notacolor"),
               JsString("currentcolor"), JsNumber} : Free(SetFillStyle(v))
  \/ \E v \in {JsString("white"), JsString("notacolor"), JsString("currentcolor")} :
       Free(SetStrokeStyle(v))
  \/ Free(Save)
  \/ Free(Restore)

SpecStyle == Init /\ [][NextStyle]_vars

\* Paint resolution on its own: a context whose top frame carries any pair
\* of patterns and either an empty or a set dash list, any of four global
\* alphas and either of two transforms, resolved once as a fill paint and
\* as a stroke paint with the same answers of the backend.
PatternInputs ==
  {ColorPattern(Rgba(255, 0, 0, 255), "red"), ColorPattern(Rgba(0, 0, 0, 128), "rgba(0,0,0,0.5)"),
   GradientPattern("linear1"),
   [kind |-> "ImagePattern", rgba |-> Rgba(0, 0, 0, 0), text |-> "", gradient |-> "none"]}

InitResolve ==
  /\ \E f \in PatternInputs, s \in PatternInputs, d \in {<< >>, <<2, 1>>} :
       states = <<[DefaultState EXCEPT !.fill_style = f, !.stroke_style = s,
                                       !.line_dash_list = d, !.line_dash_offset = Len(d)]>>
  /\ \E a \in {0, 127, 128, 255} : paint = SetAlpha(PaintDefault, a)
  /\ path = PathNew
  /\ given_path = GivenPath
  /\ ctm \in {Identity, Scaling(2, 2)}
  /\ clip = NoGeom
  /\ saved = << >>
  /\ calls = << >>
  /\ last = [op |-> "new", result |-> "ok", arg |-> << >>]
  /\ debug_build \in BOOLEAN
  /\ snap = << >>
  /\ js_props = [fillStyle |-> JsUndefined, strokeStyle |-> JsUndefined]
  /\ nset = 0

\* One call of Context::fill_paint and one of Context::stroke_paint on the
\* same context, the backend answering both alike.
ResolveBoth(shader_ok, dash_ok) ==
  /\ last.op = "new"
  /\ Done("resolve", "ok",
          [fill |-> FillPaint(shader_ok, dash_ok), stroke |-> StrokePaint(shader_ok, dash_ok)])
  /\ UNCHANGED <<states, paint, path, given_path, ctm, clip, saved, calls, debug_build, snap, js_props, nset>>

NextResolve == \E shader_ok \in Booleans, dash_ok \in Booleans : ResolveBoth(shader_ok, dash_ok)

SpecResolve == InitResolve /\ [][NextResolve]_vars

\* The shadow colour on the stack: the setter with colours, a text that does
\* not parse and the current-colour keyword, with save and restore.
NextShadowColor ==
  \/ \E t \in {"white", "rgba(0,0,0,0.5)", "notacolor", "currentcolor"} : Free(SetShadowColor(t))
  \/ Free(Save)
  \/ Free(Restore)

SpecShadowColor == Init /\ [][NextShadowColor]_vars

\* ImageData on its own: the constructor in its three forms over small
\* sizes, sizes whose product passes 2^32, and buffers that are and are not
\* whole rows.
NextImage ==
  \E form \in {"size", "data", "other"}, data_len \in {0, 4, 8, 10, 16}, width \in {0, 1, 2, 65536},
     height \in {<< >>, <<0>>, <<1>>, <<2>>, <<16384>>} :
       Free(ImageDataConstructor(form, data_len, width, height))

SpecImage == Init /\ [][NextImage]_vars

(***************************************************************************)
(* Properties of the rendering-state stack.                                *)
(***************************************************************************)
\* How many calls of one name a calls log holds.
CountCalls(log, name) == Cardinality({i \in 1..Len(log) : log[i].call = name})

\* C1: in every reachable state the rendering-state stack holds at least one
\* frame; in particular a restore() at depth 1 has not popped it.
C1_StackNeverEmpty == Len(states) >= 1

\* C1 witness: a restore() was called at depth 1 and dropped no frame.
C1_Witness ==
  /\ last.op = "restore"
  /\ Len(last.arg) = 0
  /\ Len(states) = 1

\* C2: a restore() that matches an earlier save() leaves a top frame whose
\* stackable fields are those of the top frame at that save().
C2_RestoreMatchesSave ==
  [][(last'.op = "restore" /\ Len(snap) > 0) => Top(states') = Top(snap)]_vars

\* C2 witness: a restore() dropped a frame that setters had made different
\* from the frame it returned to.
C2_Witness ==
  /\ last.op = "restore"
  /\ Len(last.arg) = 1
  /\ last.arg[1] # Top(states)
  /\ Top(states) # DefaultState

\* C3: restore() at depth 1 succeeds, leaves the style stack as it was and
\* calls the backend restore exactly once.
C3_RestoreAtDepthOne ==
  [][(last'.op = "restore" /\ Len(states) = 1)
       => /\ last'.result = "ok"
          /\ states' = states
          /\ CountCalls(calls', "restore") = 1
          /\ Len(calls') = 1]_vars

\* C3 witness: a restore() at depth 1 kept a frame that setters had changed
\* and issued its backend restore.
C3_Witness ==
  /\ last.op = "restore"
  /\ Len(last.arg) = 0
  /\ Len(states) = 1
  /\ Top(states) # DefaultState
  /\ CountCalls(calls, "restore") = 1

\* C4: save() pushes exactly one frame, a copy of the previous top frame,
\* leaves the frames below unchanged and calls the backend save exactly once.
C4_SavePushesCopy ==
  [][last'.op = "save"
       => /\ Len(states') = Len(states) + 1
          /\ Top(states') = Top(states)
          /\ SubSeq(states', 1, Len(states)) = states
          /\ CountCalls(calls', "save") = 1
          /\ Len(calls') = 1
          /\ Len(saved') = Len(saved) + 1]_vars

\* C4 witness: a save() has pushed a copy of a frame that setters had changed.
C4_Witness ==
  /\ last.op = "save"
  /\ Len(states) = 2
  /\ states[2] = states[1]
  /\ states[1] # DefaultState

\* C5: save() and restore() leave every field of the global paint unchanged.
C5_SaveRestoreKeepPaint ==
  [][last'.op \in {"save", "restore"} => paint' = paint]_vars

\* C5 witness: a restore() has matched a save() while the global paint holds
\* values given by its setters.
C5_Witness ==
  /\ last.op = "restore"
  /\ Len(last.arg) = 1
  /\ paint # PaintDefault

(***************************************************************************)
(* Properties of the global alpha and of paint resolution.                 *)
(***************************************************************************)
\* Whether a globalAlpha argument lies within [0, 1].
InUnitInterval(x) == ~x.nan /\ x.milli >= 0 /\ x.milli <= 1000

\* C6: for every a in [0, 1], setting globalAlpha to a succeeds and the
\* getter then returns a itself.
C6_GlobalAlphaRoundTrip ==
  (last.op = "set_global_alpha" /\ InUnitInterval(last.arg))
    => /\ last.result = "ok"
       /\ GetGlobalAlpha[1] * 1000 = last.arg.milli * GetGlobalAlpha[2]

\* C7: setting globalAlpha to an argument outside [0, 1] (below 0, above 1,
\* or NaN) fails and leaves the stored global alpha as it was.
C7_GlobalAlphaRejected ==
  [][(last'.op = "set_global_alpha" /\ ~InUnitInterval(last'.arg))
       => (last'.result = "err" /\ paint' = paint)]_vars

\* colourAlpha/255 x globalAlpha/255, scaled to 0..255 and rounded half away
\* from zero.
ComposedAlpha(colour_alpha, global_alpha) == (2 * colour_alpha * global_alpha + 255) \div 510

IsDraw(c) == c.call \in {"draw_rect", "draw_path"}

\* The draw calls of a calls log, in order.
Draws(log) == SelectSeq(log, IsDraw)

DrawOps == {"fill_rect", "stroke_rect", "fill", "fill_path", "stroke"}

\* C8: with a solid-colour fillStyle the resolved fill paint carries the
\* colour's r, g, b and the alpha composed from the colour's alpha and the
\* global alpha in the 0..255 domain, rounded half away from zero.
C8_SolidFillAlpha ==
  (/\ last.op \in {"fill_rect", "fill"}
   /\ last.result = "ok"
   /\ Top(states).fill_style.kind = "Color")
    => LET colour == Top(states).fill_style.rgba
           drawn == Draws(calls)[Len(Draws(calls))].paint.color
       IN  drawn = Rgba(colour.red, colour.green, colour.blue,
                        ComposedAlpha(colour.alpha, GetAlpha(paint)))

(***************************************************************************)
(* Properties of the shadow pass.                                          *)
(***************************************************************************)
\* The paint a successful draw call resolved: that of its primary draw.
ResolvedPaint == Draws(calls)[Len(Draws(calls))].paint

ShadowDrawIssued == \E i \in 1..Len(calls) : IsDraw(calls[i]) /\ calls[i].pass = "shadow"

\* The conditions under which a shadow pass is to be emitted.
ShadowConditions ==
  /\ Top(states).shadow_color.alpha > 0
  /\ GetAlpha(ResolvedPaint) > 0
  /\ Top(states).shadow_blur # 0
  /\ Top(states).shadow_offset_x # 0
  /\ Top(states).shadow_offset_y # 0

\* C9: whenever a draw call issued a shadow draw, the shadow colour's alpha,
\* the resolved paint's alpha, the blur and both offsets were all non-zero.
C9_ShadowOnlyWhenAllHold ==
  ShadowDrawIssued => (last.op \in DrawOps /\ ShadowConditions)

\* C9 witness: a draw call has issued a shadow draw.
C9_Witness == ShadowDrawIssued /\ last.op = "stroke_rect"

\* The passes of the draw calls a handler issued, in order.
PassesDrawn == [i \in 1..Len(Draws(calls)) |-> Draws(calls)[i].pass]

\* C10: a successful draw call under the shadow conditions issues exactly two
\* backend draws, the shadow and then the primary; with shadowOffsetX = 0 and
\* shadowOffsetY = 3 it issues exactly one.
C10_ShadowedDrawCount ==
  (last.op \in DrawOps /\ last.result = "ok")
    => /\ ShadowConditions => PassesDrawn = <<"shadow", "primary">>
       /\ (Top(states).shadow_offset_x = 0 /\ Top(states).shadow_offset_y = 3)
            => PassesDrawn = <<"primary">>

Min(x, y) == IF x <= y THEN x ELSE y

\* C11: the shadow alpha composed from the shadow colour's alpha and the
\* paint's alpha is their saturating product min(255, a x b) for every pair of
\* 8-bit inputs: it never wraps modulo 256, the composition never aborts, and
\* the shadow is dropped for a zero alpha only when one of the inputs is 0.
C11_ShadowAlphaSaturates ==
  last.op = "shadow_paint"
    => LET a == Top(states).shadow_color.alpha
           b == GetAlpha(paint)
       IN  /\ last.result \in {"some", "none"}
           /\ (last.result = "none") <=> (a = 0 \/ b = 0)
           /\ last.result = "some" => last.arg[1] = Min(255, a * b)

\* C12: whenever a draw call emits a shadow pass, the shadow draw comes before
\* the primary draw, a backend restore lies between the two, and the primary
\* draw, the last call issued, runs under the transform and the clip that
\* were active when the call began.
C12_ShadowThenRestoreThenPrimary ==
  [][(/\ last'.op \in DrawOps
      /\ \E i \in 1..Len(calls') : IsDraw(calls'[i]) /\ calls'[i].pass = "shadow")
       => \E i, j \in 1..Len(calls') :
            /\ i < j /\ j < Len(calls')
            /\ IsDraw(calls'[i]) /\ calls'[i].pass = "shadow"
            /\ calls'[j].call = "restore"
            /\ IsDraw(calls'[Len(calls')]) /\ calls'[Len(calls')].pass = "primary"
            /\ calls'[Len(calls')].ctm = ctm
            /\ calls'[Len(calls')].clip = clip
            /\ \A k \in 1..Len(calls') :
                 IsDraw(calls'[k]) => k \in {i, Len(calls')}]_vars

\* C12 witness: a stroke() under a transform other than the identity and
\* under a clip has emitted a shadow pass.
C12_Witness ==
  /\ last.op = "stroke"
  /\ ShadowDrawIssued
  /\ ctm # Identity
  /\ clip # NoGeom
  /\ calls[Len(calls)].ctm = ctm
  /\ calls[Len(calls)].clip = clip

\* C13: during the shadow draw the backend's active transform is the
\* call-time transform T followed by a translation by (shadowOffsetX,
\* shadowOffsetY) that T does not scale: T is applied once.  For T =
\* translate(a, b) it is translate(a + dx, b + dy); for T = scale(s) its scale
\* component is s.
C13_ShadowTransform ==
  \A i \in 1..Len(calls) :
    (IsDraw(calls[i]) /\ calls[i].pass = "shadow")
      => calls[i].ctm = MatMul(Translation(Top(states).shadow_offset_x,
                                           Top(states).shadow_offset_y), ctm)

\* C14: a draw call (fill, stroke, fillRect, strokeRect) that returns an
\* error - the paint could not be resolved or the transform could not be
\* inverted - has issued no backend draw call, shadow or primary.
C14_FailedDrawIssuesNoDraw ==
  (last.op \in DrawOps /\ last.result = "err") => Len(Draws(calls)) = 0

\* C14 witness: a stroke() failed on a singular transform after the backend
\* save of its shadow pass.
C14_Witness ==
  /\ last.op = "stroke"
  /\ last.result = "err"
  /\ ~Invertible(ctm)
  /\ CountCalls(calls, "save") = 1

(***************************************************************************)
(* Properties of globalCompositeOperation.                                 *)
(***************************************************************************)
\* string -> BlendMode -> backend integer -> BlendMode -> string
BlendRoundTrip(text) == BlendAsStr(BlendFromI32(BlendToI32(BlendFromStr(text).mode)))

\* C15: every string the globalCompositeOperation setter accepts is read
\* back unchanged by a get right after the set; equivalently the chain
\* string -> BlendMode -> integer -> BlendMode -> string is the identity on
\* every string of the table.
C15_BlendModeRoundTrip ==
  /\ (last.op = "set_global_composite_operation" /\ last.result = "ok")
       => GetGlobalCompositeOperation = last.arg
  /\ \A t \in BlendStrings : BlendFromStr(t).ok /\ BlendRoundTrip(t) = t

\* C15 witness: "destination-atop" has been set and accepted.
C15_Witness ==
  /\ last.op = "set_global_composite_operation"
  /\ last.result = "ok"
  /\ last.arg = "destination-atop"
  /\ paint.blend_mode = 10

\* The strings the setter accepts, among those of the table and those tried
\* from outside it.
AcceptedBlendStrings ==
  {t \in BlendStrings \cup UnknownBlendStrings : BlendFromStr(t).ok}

\* The lookup is exact with n entries: n strings are accepted, no two of them
\* give the same blend mode or the same backend integer, and the setter
\* succeeds on these strings only.
BlendTableExact(n) ==
  /\ Cardinality(AcceptedBlendStrings) = n
  /\ \A t, u \in AcceptedBlendStrings :
       BlendToI32(BlendFromStr(t).mode) = BlendToI32(BlendFromStr(u).mode) => t = u
  /\ AcceptedBlendStrings \cap UnknownBlendStrings = {}
  /\ last.op = "set_global_composite_operation"
       => (last.result = "ok" <=> last.arg \in AcceptedBlendStrings)

\* C16 as stated: the globalCompositeOperation lookup table is exact and has
\* 28 entries, each mapped to a distinct blend-mode identifier.
C16_TableHas28Entries == BlendTableExact(28)

\* C16 amended: the globalCompositeOperation lookup table is exact and has 29
\* entries, one per BlendMode variant, each mapped to a distinct blend-mode
\* identifier.
C16_TableHas29Entries ==
  /\ BlendTableExact(29)
  /\ {BlendFromStr(t).mode : t \in AcceptedBlendStrings}
       = {BlendModeVariants[i] : i \in 1..Len(BlendModeVariants)}

\* C16 witness: the setter has accepted "luminosity", the entry with the
\* highest identifier, 28.
C16_Witness ==
  /\ last.op = "set_global_composite_operation"
  /\ last.result = "ok"
  /\ last.arg = "luminosity"
  /\ paint.blend_mode = 28

\* C17: setting globalCompositeOperation to a string outside the lookup table
\* fails and leaves the blend mode and every other field of the context as
\* they were.
C17_UnknownBlendRejected ==
  [][(last'.op = "set_global_composite_operation" /\ last'.arg \notin BlendStrings)
       => /\ last'.result = "err"
          /\ UNCHANGED <<states, paint, path, given_path, ctm, clip, saved, js_props>>
          /\ calls' = << >>]_vars

\* C17 witness: an unknown string was rejected while a mode other than the
\* initial one was configured, on a stack two frames deep.
C17_Witness ==
  /\ last.op = "set_global_composite_operation"
  /\ last.result = "err"
  /\ last.arg = "lighter"
  /\ GetGlobalCompositeOperation = "multiply"
  /\ Len(states) = 2

(***************************************************************************)
(* Properties of paths, clips and fill rules.                              *)
(***************************************************************************)
\* The fill-rule argument of a clip or fill handler call: << >> or <<text>>.
RuleOf(handler) == IF handler.op = "clip" THEN handler.arg.rule ELSE handler.arg

\* C18: clip with no rule, "nonzero" or "evenodd" succeeds, sets Winding,
\* Winding or EvenOdd on its target - the given path, or the current path
\* when none is given - leaves the target's segments and the other path
\* alone, and hands that same path to the backend as the active clip.
C18_ClipInstallsTarget ==
  [][(last'.op = "clip" /\ last'.arg.rule \in {<< >>, <<"nonzero">>, <<"evenodd">>})
       => LET given == last'.arg.given
              expected == IF last'.arg.rule = <<"evenodd">> THEN "EvenOdd" ELSE "Winding"
              before == IF given THEN given_path ELSE path
              after == IF given THEN given_path' ELSE path'
          IN  /\ last'.result = "ok"
              /\ after = [before EXCEPT !.fill_type = expected]
              /\ IF given THEN path' = path ELSE given_path' = given_path
              /\ clip' = PathGeom(after)
              /\ Len(calls') = 1
              /\ calls'[1].call = "clip_path"
              /\ calls'[1].geom = PathGeom(after)]_vars

\* C18 witness: clip("evenodd") with no path has installed the current path,
\* which has segments, with the even-odd rule.
C18_Witness ==
  /\ last.op = "clip"
  /\ last.result = "ok"
  /\ ~last.arg.given
  /\ last.arg.rule = <<"evenodd">>
  /\ Len(path.points) > 0
  /\ clip = PathGeom(path)
  /\ clip.fill_type = "EvenOdd"

\* C19: clip or fill called with a fill-rule string other than "nonzero" and
\* "evenodd" fails before any effect: no path's fill rule changes, the
\* backend clip stays, and no backend call, hence no draw call, is issued.
C19_BadFillRuleRejected ==
  [][(/\ last'.op \in {"clip", "fill", "fill_path"}
      /\ Len(RuleOf(last')) = 1
      /\ RuleOf(last')[1] \notin {"nonzero", "evenodd"})
       => /\ last'.result = "err"
          /\ UNCHANGED <<path, given_path, clip, ctm, saved, states, paint>>
          /\ calls' = << >>]_vars

\* C19 witness: fill("bogus") failed on a current path carrying the even-odd
\* rule while a clip was installed.
C19_Witness ==
  /\ last.op = "fill"
  /\ last.result = "err"
  /\ last.arg = <<"bogus">>
  /\ path.fill_type = "EvenOdd"
  /\ clip # NoGeom

\* C20: beginPath() leaves a fresh empty path as the current path whatever it
\* held before, and a fill() right after it succeeds and hands the backend
\* nothing but the empty path.
C20_BeginPathThenFill ==
  [][/\ last'.op = "begin_path" => path' = PathNew
     /\ (last.op = "begin_path" /\ last'.op = "fill" /\ RuleArgument(last'.arg).ok)
          => /\ last'.result = "ok"
             /\ Len(Draws(calls')) = 1
             /\ \A i \in 1..Len(calls') :
                  calls'[i].call = "draw_path" /\ calls'[i].geom.points = << >>]_vars

\* C20 witness: segments were appended to the current path, it is empty
\* again, and a fill() has drawn the empty path.
C20_Witness ==
  /\ last.op = "fill"
  /\ last.result = "ok"
  /\ nset > 0
  /\ path.points = << >>
  /\ Len(calls) = 1
  /\ calls[1].geom = PathGeom([PathNew EXCEPT !.fill_type = path.fill_type])

(***************************************************************************)
(* Properties of clearRect, of the transform handlers and of paint         *)
(* resolution.                                                             *)
(***************************************************************************)
\* C21: clearRect issues exactly one backend call, a rectangle draw with a
\* paint of alpha 0 and the source-over blend mode whatever the global blend
\* mode is, draws no shadow pass, and leaves the global paint, the style
\* stack and the current path as they were.
C21_ClearRectOverride ==
  [][last'.op = "clear_rect"
       => /\ Len(calls') = 1
          /\ calls'[1].call = "draw_rect"
          /\ calls'[1].pass = "primary"
          /\ GetAlpha(calls'[1].paint) = 0
          /\ calls'[1].paint.blend_mode = BlendToI32("SourceOver")
          /\ UNCHANGED <<paint, states, path>>]_vars

\* C21 witness: clearRect ran with another blend mode configured, a global
\* alpha above zero, a path segment, and every condition of a shadow pass.
C21_Witness ==
  /\ last.op = "clear_rect"
  /\ paint.blend_mode = BlendToI32("Xor")
  /\ GetAlpha(paint) > 0
  /\ Len(path.points) > 0
  /\ Top(states).shadow_color.alpha > 0
  /\ Top(states).shadow_blur # 0
  /\ Top(states).shadow_offset_x # 0
  /\ Top(states).shadow_offset_y # 0

\* C22: translate(dx, dy) multiplies the backend transform by the translation
\* and moves every stored point of the current path by (-dx, -dy), keeping
\* its verbs and fill rule; scale(sx, sy) multiplies the backend transform by
\* the scaling and leaves the current path alone.  Neither changes the style
\* stack or the global paint.
C22_TranslateMovesPathScaleDoesNot ==
  [][/\ last'.op = "translate"
          => LET dx == last'.arg[1]
                 dy == last'.arg[2]
             IN  /\ ctm' = MatMul(ctm, Translation(dx, dy))
                 /\ Len(path'.points) = Len(path.points)
                 /\ \A i \in 1..Len(path.points) :
                      path'.points[i] = <<path.points[i][1] - dx, path.points[i][2] - dy>>
                 /\ path'.verbs = path.verbs
                 /\ path'.fill_type = path.fill_type
                 /\ UNCHANGED <<states, paint>>
     /\ last'.op = "scale"
          => /\ ctm' = MatMul(ctm, Scaling(last'.arg[1], last'.arg[2]))
             /\ UNCHANGED <<path, states, paint>>]_vars

\* C22 witness: a path point stored at (1, 1) reads (0, -1) after
\* translate(1, 2) on a canvas that had been scaled.
C22_Witness ==
  /\ last.op = "translate"
  /\ last.arg = <<1, 2>>
  /\ Len(path.points) = 1
  /\ path.points[1] = <<0, -1>>
  /\ ctm = MatMul(Scaling(2, 2), Translation(1, 2))

\* The pattern a draw handler resolves: the stroke style for stroke and
\* strokeRect, the fill style for the others.
PatternOf(op) ==
  IF op \in {"stroke", "stroke_rect"} THEN Top(states).stroke_style ELSE Top(states).fill_style

\* C23: a successful draw call whose pattern is a gradient draws with a paint
\* whose shader is that gradient bound to the backend transform the draw
\* call found, and whose colour is (0, 0, 0, global alpha).
C23_GradientShaderPerDraw ==
  [][(/\ last'.op \in DrawOps
      /\ last'.result = "ok"
      /\ PatternOf(last'.op).kind = "Gradient")
       => LET drawn == Draws(calls')[Len(Draws(calls'))].paint
          IN  /\ drawn.shader = [gradient |-> PatternOf(last'.op).gradient, transform |-> ctm]
              /\ drawn.color = Rgba(0, 0, 0, GetAlpha(paint))]_vars

\* C23 witness: a gradient fill drawn after the transform was moved twice
\* carries a shader bound to the moved transform.
C23_Witness ==
  /\ last.op = "fill_rect"
  /\ last.result = "ok"
  /\ Top(states).fill_style.kind = "Gradient"
  /\ nset = 2
  /\ ctm # Identity
  /\ calls[1].paint.shader.transform = ctm
  /\ GetAlpha(calls[1].paint) = 127

(***************************************************************************)
(* Properties of the fill and stroke styles.                               *)
(***************************************************************************)
\* C24: assigning fillStyle or strokeStyle a string that does not parse as a
\* colour, or the current-colour keyword, fails and leaves every frame's
\* patterns and the values both getters read back as they were.
C24_BadStyleRejected ==
  [][(/\ last'.op \in {"set_fill_style", "set_stroke_style"}
      /\ last'.arg.type = "string"
      /\ ParseColor(last'.arg.text).kind # "rgba")
       => /\ last'.result = "err"
          /\ states' = states
          /\ GetFillStyle' = GetFillStyle
          /\ GetStrokeStyle' = GetStrokeStyle]_vars

\* C24 witness: the current-colour keyword was refused as a fillStyle while
\* the top frame and the getter held a gradient.
C24_Witness ==
  /\ last.op = "set_fill_style"
  /\ last.result = "err"
  /\ last.arg = JsString("currentcolor")
  /\ Top(states).fill_style = GradientPattern("linear1")
  /\ GetFillStyle = JsGradient("linear1")

\* C25: on a context whose stroke style and fill style are the same pattern,
\* stroke-paint resolution and fill-paint resolution fail together, and when
\* they succeed their paints differ in the draw style only.
C25_StrokeResolvesLikeFill ==
  (last.op = "resolve" /\ Top(states).stroke_style = Top(states).fill_style)
    => /\ last.arg.stroke.ok = last.arg.fill.ok
       /\ last.arg.fill.ok
            => /\ last.arg.fill.paint.style = "Fill"
               /\ last.arg.stroke.paint.style = "Stroke"
               /\ last.arg.stroke.paint = [last.arg.fill.paint EXCEPT !.style = "Stroke"]

\* C25 witness: a half-transparent colour under a global alpha of 128 and a
\* set dash list was resolved both ways, and both paints carry the dash
\* effect.
C25_Witness ==
  /\ last.op = "resolve"
  /\ Top(states).stroke_style = Top(states).fill_style
  /\ Top(states).fill_style.kind = "Color"
  /\ Top(states).fill_style.rgba.alpha = 128
  /\ GetAlpha(paint) = 128
  /\ last.arg.fill.ok
  /\ last.arg.stroke.paint.path_effect.kind = "dash"

(***************************************************************************)
(* Properties of the backend's save depth.                                 *)
(***************************************************************************)
\* C26: every draw call, whether it succeeds or fails, leaves the backend's
\* transform/clip save depth as it found it, so that a backend depth of
\* style-stack depth - 1 is kept by every draw call.
C26_DrawKeepsSaveDepth ==
  [][last'.op \in DrawOps
       => /\ Len(saved') = Len(saved)
          /\ Len(saved) = Len(states) - 1 => Len(saved') = Len(states') - 1]_vars

(***************************************************************************)
(* Properties of the stored texts and of a new context.                    *)
(***************************************************************************)
\* get_shadow_color (ctx.rs:1022-1035)
GetShadowColor == Top(states).shadow_color_string

\* C27: in every frame of the style stack the stored shadow-colour text
\* parses to the stored shadow RGBA, so that a failed shadowColor assignment
\* has changed neither.
C27_ShadowTextMatchesRgba ==
  /\ \A i \in 1..Len(states) :
       ParseColor(states[i].shadow_color_string) =
         [kind |-> "rgba", rgba |-> states[i].shadow_color]
  /\ ParseColor(GetShadowColor).kind = "rgba"

\* A value read back by a style getter denotes a pattern: a string that
\* parses to the pattern's colour, or the gradient object of the pattern.
Denotes(v, pattern) ==
  \/ /\ v.type = "string"
     /\ pattern.kind = "Color"
     /\ ParseColor(v.text) = [kind |-> "rgba", rgba |-> pattern.rgba]
  \/ /\ v.type = "object"
     /\ pattern.kind = "Gradient"
     /\ v.gradient = pattern.gradient

\* C28: once a fillStyle (strokeStyle) has been assigned, the value its
\* getter returns denotes the top frame's fill (stroke) pattern, whatever
\* assignments, saves and restores came after.
C28_GetterDenotesTopFrame ==
  /\ GetFillStyle # JsUndefined => Denotes(GetFillStyle, Top(states).fill_style)
  /\ GetStrokeStyle # JsUndefined => Denotes(GetStrokeStyle, Top(states).stroke_style)

\* C29: on a context no handler has been called on, the stored alpha byte of
\* the global paint is 255 and globalAlpha reads back as 255/255.
C29_NewContextOpaque ==
  last.op = "new" => (GetAlpha(paint) = 255 /\ GetGlobalAlpha = <<255, 255>>)

(***************************************************************************)
(* Properties of ImageData.                                                *)
(***************************************************************************)
\* C30: for every ImageData the constructor creates, in each of its forms,
\* width x height x 4 computed in full equals the length of its data buffer,
\* and Drop releases the buffer with that length.
C30_ImageDataLength ==
  (last.op = "image_data" /\ last.result = "ok")
    => LET image == last.arg.image
           full == Times(Times(ToBytes(image.width), ToBytes(image.height)), ToBytes(4))
       IN  /\ full = image.data_len
           /\ ~DropLen(image).panic
           /\ DropLen(image).value = image.data_len

====
